---- MODULE Spec2Model ----
(***************************************************************************)
(* Gaussian Adaptive Attention (gaussian_adaptive_attention/MHGAAM.py).    *)
(*                                                                         *)
(* GaussianAdaptiveAttention and MultiHeadGaussianAdaptiveAttention as a   *)
(* state machine.  Tensors are 2-D (a sequence of rows); norm_axis is 0    *)
(* (down the rows) or 1 (along a row).  torch.float values are numbers on  *)
(* a fixed-point grid: the integer v stands for v / Scale.  NaN is a value *)
(* of its own that every arithmetic operation propagates.                  *)
(***************************************************************************)
EXTENDS Integers, Sequences, FiniteSets, TLC

(***************************************************************************)
(* Bounds of the model.                                                    *)
(***************************************************************************)
MaxExtent == 4
MaxHeads == 3
MaxGaussians == 2
MaxSteps == 2

(***************************************************************************)
(* torch.float arithmetic on the fixed-point grid.                         *)
(***************************************************************************)
Scale == 100
NaN == -1000000
None == -2000000
eps == 1

FAdd(a, b) == IF a = NaN \/ b = NaN THEN NaN ELSE a + b
FSub(a, b) == IF a = NaN \/ b = NaN THEN NaN ELSE a - b
FMul(a, b) == IF a = NaN \/ b = NaN THEN NaN ELSE (a * b) \div Scale
FDiv(a, b) == IF a = NaN \/ b = NaN THEN NaN ELSE (a * Scale) \div b
FNeg(a) == IF a = NaN THEN NaN ELSE 0 - a

RECURSIVE SqrtSearch(_, _, _)
SqrtSearch(n, lo, hi) ==
    IF lo >= hi THEN lo
    ELSE LET mid == (lo + hi + 1) \div 2
         IN  IF mid * mid <= n THEN SqrtSearch(n, mid, hi)
             ELSE SqrtSearch(n, lo, mid - 1)

\* torch.sqrt: the square root of a / Scale, on the grid
FSqrt(a) == IF a = NaN \/ a < 0 THEN NaN ELSE SqrtSearch(a * Scale, 0, a + Scale)

\* e^(-n) on the grid, n a whole number
ExpNegInt(n) ==
    CASE n = 0 -> 100
      [] n = 1 -> 37
      [] n = 2 -> 14
      [] n = 3 -> 5
      [] n = 4 -> 2
      [] n = 5 -> 1
      [] OTHER -> 0

\* e^(-f / Scale) for 0 <= f < Scale, by its Taylor series
ExpNegFrac(f) ==
    Scale - f + (f * f) \div (2 * Scale)
          - (f * f * f) \div (6 * Scale * Scale)
          + (f * f * f * f) \div (24 * Scale * Scale * Scale)

\* torch.exp of a value a <= 0
FExp(a) ==
    IF a = NaN THEN NaN
    ELSE LET t == 0 - a
         IN  (ExpNegInt(t \div Scale) * ExpNegFrac(t % Scale)) \div Scale

\* a function on 1..n as the tuple of its values
AsSeq(f) == f \o <<>>

RECURSIVE SeqSum(_)
SeqSum(s) == IF s = <<>> THEN 0 ELSE FAdd(s[1], SeqSum(Tail(s)))

RECURSIVE SeqMax(_)
SeqMax(s) ==
    IF Len(s) = 1 THEN s[1]
    ELSE LET m == SeqMax(Tail(s)) IN IF s[1] >= m THEN s[1] ELSE m

\* F.softmax(w, dim=0)
Softmax(w) ==
    LET m == SeqMax(w)
        e == AsSeq([i \in 1..Len(w) |-> FExp(w[i] - m)])
        total == SeqSum(e)
    IN  AsSeq([i \in 1..Len(w) |-> FDiv(e[i], total)])

(***************************************************************************)
(* Tensor operations (2-D).                                                *)
(***************************************************************************)
Shape(t) == <<Len(t), Len(t[1])>>
Extent(t, axis) == Shape(t)[axis + 1]

\* element (i, j) of s broadcast against a larger shape (keepdim results)
Bc(s, i, j) == s[IF Len(s) = 1 THEN 1 ELSE i][IF Len(s[1]) = 1 THEN 1 ELSE j]

\* the elements of t along `axis` at the position (i, j) of the keepdim result
Lane(t, axis, i, j) ==
    IF axis = 0 THEN AsSeq([k \in 1..Len(t) |-> t[k][j]]) ELSE t[i]

\* the shape of a reduction along `axis` with keepdim=True
KeepDimRows(t, axis) == IF axis = 0 THEN 1 ELSE Len(t)
KeepDimCols(t, axis) == IF axis = 0 THEN Len(t[1]) ELSE 1

\* t.sum(dim=axis, keepdim=True)
SumDim(t, axis) ==
    AsSeq([i \in 1..KeepDimRows(t, axis) |->
        AsSeq([j \in 1..KeepDimCols(t, axis) |-> SeqSum(Lane(t, axis, i, j))])])

\* the mean of a lane: sum / n
LaneMean(s) == IF SeqSum(s) = NaN THEN NaN ELSE SeqSum(s) \div Len(s)

\* the unbiased variance of a lane: sum((v - mean)^2) / (n - 1), NaN for n = 1
LaneVar(s) ==
    IF Len(s) = 1 \/ LaneMean(s) = NaN THEN NaN
    ELSE LET m == LaneMean(s)
             sq == AsSeq([k \in 1..Len(s) |-> FMul(FSub(s[k], m), FSub(s[k], m))])
         IN  IF SeqSum(sq) = NaN THEN NaN ELSE SeqSum(sq) \div (Len(s) - 1)

\* t.mean(dim=axis, keepdim=True)
MeanDim(t, axis) ==
    AsSeq([i \in 1..KeepDimRows(t, axis) |->
        AsSeq([j \in 1..KeepDimCols(t, axis) |-> LaneMean(Lane(t, axis, i, j))])])

\* t.var(dim=axis, keepdim=True)
VarDim(t, axis) ==
    AsSeq([i \in 1..KeepDimRows(t, axis) |->
        AsSeq([j \in 1..KeepDimCols(t, axis) |-> LaneVar(Lane(t, axis, i, j))])])

\* x.narrow(axis, start, length), start counted from 0
Narrow(t, axis, start, length) ==
    IF axis = 0 THEN SubSeq(t, start + 1, start + length)
    ELSE AsSeq([i \in 1..Len(t) |-> SubSeq(t[i], start + 1, start + length)])

\* torch.cat(ts, dim=axis)
RECURSIVE Cat(_, _)
Cat(ts, axis) ==
    IF Len(ts) = 1 THEN ts[1]
    ELSE LET rest == Cat(Tail(ts), axis)
         IN  IF axis = 0 THEN ts[1] \o rest
             ELSE AsSeq([i \in 1..Len(ts[1]) |-> ts[1][i] \o rest[i]])

(***************************************************************************)
(* GaussianAdaptiveAttention.forward, stage by stage.                      *)
(***************************************************************************)
\* mask = x != self.padding_value
MaskOf(t, pv) ==
    AsSeq([i \in 1..Len(t) |-> AsSeq([j \in 1..Len(t[1]) |-> t[i][j] # pv])])

\* x_masked = torch.where(mask, x, torch.zeros_like(x)), or x without a padding value
XMasked(t, pv) ==
    IF pv # None
    THEN LET m == MaskOf(t, pv)
         IN  AsSeq([i \in 1..Len(t) |-> AsSeq([j \in 1..Len(t[1]) |->
                 IF m[i][j] THEN t[i][j] ELSE 0])])
    ELSE t

\* mean = x_masked.mean(dim=self.norm_axis, keepdim=True)
MeanOf(t, pv, axis) == MeanDim(XMasked(t, pv), axis)

\* var = x_masked.var(dim=self.norm_axis, keepdim=True) + self.eps
VarOf(t, pv, axis) ==
    LET v == VarDim(XMasked(t, pv), axis)
    IN  AsSeq([i \in 1..Len(v) |-> AsSeq([j \in 1..Len(v[1]) |-> FAdd(v[i][j], eps)])])

\* faulty variant: the softmax is applied whatever the stored weights are
NormalizedWeightsAlways(w, is_param) == Softmax(w)

\* normalized_weights: softmax of a Parameter, the stored tensor as it is otherwise
NormalizedWeights(w, is_param) == IF is_param THEN Softmax(w) ELSE w

\* one component's response at one element
GaussianAt(xv, m, v, offset, ci) ==
    LET adjusted_mean == FAdd(m, offset)
        y_norm == FDiv(FSub(xv, adjusted_mean), FSqrt(v))
    IN  FExp(FNeg(FDiv(FMul(y_norm, y_norm), 2 * FMul(ci, ci))))

\* gaussian = torch.exp(-(y_norm ** 2) / (2.0 * (self.c[i] ** 2)))
Gaussian(t, m, v, offset, ci) ==
    AsSeq([i \in 1..Len(t) |-> AsSeq([j \in 1..Len(t[1]) |->
        GaussianAt(t[i][j], Bc(m, i, j), Bc(v, i, j), offset, ci)])])

\* faulty variant: the sum keeps the shape of the running mixture instead of broadcasting
AccumulateNoBroadcast(mix, wi, g) ==
    AsSeq([i \in 1..Len(mix) |-> AsSeq([j \in 1..Len(mix[1]) |->
        FAdd(mix[i][j], FMul(wi, g[i][j]))])])

\* mixture += normalized_weights[i] * gaussian
Accumulate(mix, wi, g) ==
    AsSeq([i \in 1..Len(g) |-> AsSeq([j \in 1..Len(g[1]) |->
        FAdd(Bc(mix, i, j), FMul(wi, g[i][j]))])])

\* .clamp(min=lo)
ClampMin(a, lo) == IF a = NaN THEN NaN ELSE IF a < lo THEN lo ELSE a

\* faulty variant: the mixture is summed along the other axis
YTransformWrongAxis(mix, axis) ==
    LET total == SumDim(mix, 1 - axis)
    IN  AsSeq([i \in 1..Len(mix) |-> AsSeq([j \in 1..Len(mix[1]) |->
            FDiv(mix[i][j], ClampMin(Bc(total, i, j), eps))])])

\* y_transform = mixture / mixture.sum(dim=self.norm_axis, keepdim=True).clamp(min=self.eps)
YTransform(mix, axis) ==
    LET total == SumDim(mix, axis)
    IN  AsSeq([i \in 1..Len(mix) |-> AsSeq([j \in 1..Len(mix[1]) |->
            FDiv(mix[i][j], ClampMin(Bc(total, i, j), eps))])])

\* faulty variant: the final torch.where is missing
OutputNoWhere(t, yt, pv) ==
    AsSeq([i \in 1..Len(yt) |-> AsSeq([j \in 1..Len(yt[1]) |->
        FMul(t[i][j], yt[i][j])])])

\* the value returned: torch.where(mask, x * y_transform, x), or x * y_transform
Output(t, yt, pv) ==
    LET m == MaskOf(t, pv)
    IN  AsSeq([i \in 1..Len(yt) |-> AsSeq([j \in 1..Len(yt[1]) |->
            IF pv # None /\ ~m[i][j] THEN t[i][j]
            ELSE FMul(t[i][j], yt[i][j])])])

\* the mixture after the first n components (mixture = 0 before the loop)
RECURSIVE MixtureUpTo(_, _, _, _, _, _, _)
MixtureUpTo(n, t, m, v, offsets, cs, nw) ==
    IF n = 0 THEN <<<<0>>>>
    ELSE Accumulate(MixtureUpTo(n - 1, t, m, v, offsets, cs, nw), nw[n],
                    Gaussian(t, m, v, offsets[n], cs[n]))

\* GaussianAdaptiveAttention.forward(x) as one function of the parameter values
Forward(t, offsets, cs, w, is_param, pv, axis) ==
    LET m == MeanOf(t, pv, axis)
        v == VarOf(t, pv, axis)
        nw == NormalizedWeights(w, is_param)
        mix == MixtureUpTo(Len(offsets), t, m, v, offsets, cs, nw)
    IN  Output(t, YTransform(mix, axis), pv)

(***************************************************************************)
(* Construction.  A tensor is a reference into `heap`, the sequence of     *)
(* tensor storages: two tensors that share storage hold the same reference.*)
(* An argument is a record [kind, dtype, ref, value]:                      *)
(*   initial_c          kind "scalar" (value) or "Tensor" (ref, dtype);    *)
(*   learnable_weights  kind "True", "False", "None", "Tensor" (a plain    *)
(*                      torch.Tensor) or "Parameter" (an nn.Parameter,     *)
(*                      which is a torch.Tensor).                          *)
(***************************************************************************)
Arg(kind, dtype, ref, value) == [kind |-> kind, dtype |-> dtype, ref |-> ref, value |-> value]

NoHead == [mean_offsets |-> 0, c |-> 0, weights |-> 0, weights_is_param |-> FALSE]

Raise(hp, what) == [raised |-> what, heap |-> hp, head |-> NoHead]

\* torch.zeros / torch.full / torch.ones: a tensor with storage of its own
Fill(n, v) == AsSeq([k \in 1..n |-> v])

\* faulty variant: the length of a tensor initial_c is not checked
InitCUnchecked(hp, n, initial_c) ==
    IF initial_c.kind = "Tensor"
    THEN [raised |-> "none", heap |-> hp, ref |-> initial_c.ref]
    ELSE [raised |-> "none", heap |-> Append(hp, Fill(n, initial_c.value)),
          ref |-> Len(hp) + 1]

\* self.c: lines 18-24.  initial_c.float() is initial_c itself when its dtype is
\* already torch.float, and nn.Parameter(data) shares the storage of data
InitC(hp, n, initial_c) ==
    IF initial_c.kind = "Tensor"
    THEN IF Len(hp[initial_c.ref]) # n THEN [raised |-> "ValueError", heap |-> hp, ref |-> 0]
         ELSE IF initial_c.dtype = "float32"
              THEN [raised |-> "none", heap |-> hp, ref |-> initial_c.ref]
              ELSE [raised |-> "none", heap |-> Append(hp, hp[initial_c.ref]),
                    ref |-> Len(hp) + 1]
    ELSE [raised |-> "none", heap |-> Append(hp, Fill(n, initial_c.value)),
          ref |-> Len(hp) + 1]

\* self.weights: lines 27-34.  Assigning an nn.Parameter to an attribute of an
\* nn.Module registers it as a parameter of the module
InitWeights(hp, n, learnable_weights) ==
    IF learnable_weights.kind = "True"
    THEN [raised |-> "none", heap |-> Append(hp, Fill(n, Scale)), ref |-> Len(hp) + 1,
          is_param |-> TRUE]
    ELSE IF learnable_weights.kind \in {"Tensor", "Parameter"}
         THEN IF Len(hp[learnable_weights.ref]) # n
              THEN [raised |-> "ValueError", heap |-> hp, ref |-> 0, is_param |-> FALSE]
              ELSE [raised |-> "none", heap |-> hp, ref |-> learnable_weights.ref,
                    is_param |-> learnable_weights.kind = "Parameter"]
         ELSE [raised |-> "TypeError", heap |-> hp, ref |-> 0, is_param |-> FALSE]

\* GaussianAdaptiveAttention.__init__
GAAInit(hp, n, initial_c, learnable_weights) ==
    LET hp1 == Append(hp, Fill(n, 0))
        cres == InitC(hp1, n, initial_c)
        wres == InitWeights(cres.heap, n, learnable_weights)
    IN  IF cres.raised # "none" THEN Raise(hp1, cres.raised)
        ELSE IF wres.raised # "none" THEN Raise(cres.heap, wres.raised)
        ELSE [raised |-> "none", heap |-> wres.heap,
              head |-> [mean_offsets |-> Len(hp) + 1, c |-> cres.ref,
                        weights |-> wres.ref, weights_is_param |-> wres.is_param]]

\* the parameters of a head that module.parameters() yields
Learnable(hd) == {"mean_offsets", "c"} \cup (IF hd.weights_is_param THEN {"weights"} ELSE {})

\* the heads built by MultiHeadGaussianAdaptiveAttention.__init__ from valid arguments
RECURSIVE BuildHeads(_, _, _, _, _)
BuildHeads(k, hp, n, initial_c, learnable_weights) ==
    IF k = 0 THEN [heap |-> hp, heads |-> <<>>]
    ELSE LET r == GAAInit(hp, n, initial_c, learnable_weights)
             rest == BuildHeads(k - 1, r.heap, n, initial_c, learnable_weights)
         IN  [heap |-> rest.heap, heads |-> <<r.head>> \o rest.heads]

(***************************************************************************)
(* The inputs of the model.                                                *)
(***************************************************************************)
Pad == 0 - Scale
Values == {Pad, Scale, 3 * Scale}
Axes == {0, 1}
Lanes == {1, 2}

\* the caller's tensors: initial_c values 2.0, 3.0, ... and weights 0.5, 1.0, ...
CallerC(n) == AsSeq([k \in 1..n |-> Scale * (k + 1)])
CallerW(n) == AsSeq([k \in 1..n |-> (Scale \div 2) * k])

DefaultC == Arg("scalar", "float32", 0, 2 * Scale)
LargeC == Arg("scalar", "float32", 0, 50 * Scale)
TrueArg == Arg("True", "bool", 0, 0)
CArgs == {DefaultC} \cup {Arg("Tensor", d, 1, 0) : d \in {"float32", "int64"}}
WArgs == {Arg(k, "bool", 0, 0) : k \in {"True", "False", "None"}}
             \cup {Arg(k, "float32", 2, 0) : k \in {"Tensor", "Parameter"}}

Reverse(s) == AsSeq([k \in 1..Len(s) |-> s[Len(s) + 1 - k]])

\* the tensor whose lanes along `axis` are s and, with two lanes, s reversed
TensorOf(s, lanes, axis) ==
    LET lane == AsSeq([l \in 1..lanes |-> IF l = 1 THEN s ELSE Reverse(s)])
    IN  IF axis = 1 THEN lane
        ELSE AsSeq([i \in 1..Len(s) |-> AsSeq([j \in 1..lanes |-> lane[j][i]])])

Inputs(axis) ==
    {TensorOf(s, l, axis) : s \in UNION {[1..e -> Values] : e \in 1..MaxExtent}, l \in Lanes}

\* the in-place change an optimizer step makes to component k of a parameter of head h
Delta(name, h, k) ==
    CASE name = "mean_offsets" -> (Scale \div 2) * (h - k)
      [] name = "c" -> Scale * (h - 1)
      [] OTHER -> Scale * (k - 1) * h

\* storage `ref` after an in-place update of parameter `name` of head h
Stepped(hp, ref, name, h) ==
    [hp EXCEPT ![ref] = AsSeq([k \in 1..Len(hp[ref]) |-> hp[ref][k] + Delta(name, h, k)])]

RECURSIVE TrainHead(_, _, _, _)
TrainHead(hp, hd, h, names) ==
    IF names = {} THEN hp
    ELSE LET nm == CHOOSE nn \in names : TRUE
         IN  TrainHead(Stepped(hp, hd[nm], nm, h), hd, h, names \ {nm})

\* every learnable parameter of every head, updated once
RECURSIVE Train(_, _, _)
Train(hp, heads, h) ==
    IF h > Len(heads) THEN hp
    ELSE Train(TrainHead(hp, heads[h], h, Learnable(heads[h])), heads, h + 1)

(***************************************************************************)
(* State.                                                                  *)
(***************************************************************************)
VARIABLES
    pc,                 \* where the program is
    norm_axis, num_heads, num_gaussians, padding_value,
    initial_variance, learnable_weights,   \* the constructor's arguments
    heap,               \* tensor storages; 1 and 2 are the caller's tensors
    attention_heads,    \* self.attention_heads
    raised,             \* the exception raised, or "none"
    steps,              \* optimizer updates made so far
    last,               \* the head and parameter the last update changed
    x, chunk_size,      \* MultiHeadGaussianAdaptiveAttention.forward
    head,               \* index of the head at work, from 0
    hx,                 \* the x of the head at work
    mask, x_masked, mean, var, normalized_weights, mixture, comp,
    y_transform, out,   \* GaussianAdaptiveAttention.forward
    outs,               \* the outputs of the heads so far
    result              \* what MultiHeadGaussianAdaptiveAttention.forward returns

config == <<norm_axis, num_heads, num_gaussians, padding_value,
            initial_variance, learnable_weights>>
module == <<heap, attention_heads, steps, last>>
headvars == <<hx, mask, x_masked, mean, var, mixture, comp, y_transform, out>>
callvars == <<x, chunk_size, outs, result>>
vars == <<pc, config, module, raised, head, normalized_weights, headvars, callvars>>

NoTensor == <<>>

NoCall ==
    /\ x = NoTensor /\ chunk_size = 0 /\ head = 0 /\ hx = NoTensor
    /\ mask = NoTensor /\ x_masked = NoTensor /\ mean = NoTensor /\ var = NoTensor
    /\ normalized_weights = NoTensor /\ mixture = NoTensor /\ comp = 0
    /\ y_transform = NoTensor /\ out = NoTensor /\ outs = <<>> /\ result = NoTensor

\* the caller's tensors, when the arguments are tensors
CallerHeap(n_c, n_w) == <<CallerC(n_c), CallerW(n_w)>>

HeadParam(hd, name) == heap[hd[name]]

(***************************************************************************)
(* Construction and parameter updates.                                     *)
(***************************************************************************)
InitNew ==
    /\ pc = "init"
    /\ norm_axis \in Axes
    /\ num_heads \in 1..MaxHeads
    /\ num_gaussians \in 1..MaxGaussians
    /\ padding_value = None
    /\ initial_variance \in CArgs
    /\ learnable_weights \in WArgs
    /\ \E n_c, n_w \in 1..(MaxGaussians + 1) :
          /\ initial_variance.kind = "scalar" => n_c = 1
          /\ learnable_weights.kind \notin {"Tensor", "Parameter"} => n_w = 1
          /\ heap = CallerHeap(n_c, n_w)
    /\ attention_heads = <<>>
    /\ raised = "none"
    /\ steps = 0
    /\ last = <<0, "none">>
    /\ NoCall

\* one GaussianAdaptiveAttention(...) of the list MultiHead...__init__ builds (line 78)
NewHead ==
    /\ pc = "init"
    /\ LET r == GAAInit(heap, num_gaussians, initial_variance, learnable_weights)
       IN  IF r.raised # "none"
           THEN /\ pc' = "raised"
                /\ raised' = r.raised
                /\ attention_heads' = <<>>
                /\ heap' = r.heap
           ELSE /\ attention_heads' = Append(attention_heads, r.head)
                /\ heap' = r.heap
                /\ pc' = IF Len(attention_heads) + 1 = num_heads THEN "idle" ELSE "init"
                /\ UNCHANGED raised
    /\ UNCHANGED <<config, steps, last, head, normalized_weights, headvars, callvars>>

\* the training collaborator updates learnable parameter `name` of head h in place
Step(h, name) ==
    /\ pc = "idle"
    /\ steps < MaxSteps
    /\ name \in Learnable(attention_heads[h])
    /\ heap' = Stepped(heap, attention_heads[h][name], name, h)
    /\ steps' = steps + 1
    /\ last' = <<h, name>>
    /\ UNCHANGED <<pc, config, attention_heads, raised, head, normalized_weights,
                   headvars, callvars>>

\* line 51 of head h's forward
ForwardWeights(h) ==
    /\ pc = "idle"
    /\ head' = h - 1
    /\ normalized_weights' = NormalizedWeights(HeadParam(attention_heads[h], "weights"),
                                               attention_heads[h].weights_is_param)
    /\ pc' = "normalized"
    /\ UNCHANGED <<config, module, raised, headvars, callvars>>

ForwardDone ==
    /\ pc = "normalized"
    /\ pc' = "idle"
    /\ head' = 0
    /\ normalized_weights' = NoTensor
    /\ UNCHANGED <<config, module, raised, headvars, callvars>>

NextInit ==
    \/ NewHead
    \/ \E h \in 1..Len(attention_heads), name \in {"mean_offsets", "c", "weights"} :
          Step(h, name)
    \/ \E h \in 1..Len(attention_heads) : ForwardWeights(h)
    \/ ForwardDone

SpecInit == InitNew /\ [][NextInit]_vars

(***************************************************************************)
(* Forward.  The module is one that construction and training can leave:   *)
(* fresh with a large scale, or trained, with learnable or fixed weights.  *)
(***************************************************************************)
Scenarios ==
    { [c |-> LargeC, w |-> TrueArg, trained |-> FALSE],
      [c |-> DefaultC, w |-> TrueArg, trained |-> TRUE],
      [c |-> DefaultC, w |-> Arg("Tensor", "float32", 2, 0), trained |-> TRUE] }

Init ==
    /\ pc = "idle"
    /\ norm_axis \in Axes
    /\ num_heads \in 1..MaxHeads
    /\ num_gaussians \in 1..MaxGaussians
    /\ padding_value \in {None, Pad}
    /\ \E sc \in Scenarios :
          LET built == BuildHeads(num_heads, CallerHeap(1, num_gaussians),
                                  num_gaussians, sc.c, sc.w)
          IN  /\ initial_variance = sc.c
              /\ learnable_weights = sc.w
              /\ attention_heads = built.heads
              /\ heap = IF sc.trained THEN Train(built.heap, built.heads, 1)
                        ELSE built.heap
              /\ steps = IF sc.trained THEN 1 ELSE 0
    /\ raised = "none"
    /\ last = <<0, "none">>
    /\ NoCall

\* faulty variant: the chunk is one element short of what the extent allows
ChunkSizeShort(extent, heads) == (extent - 1) \div heads

\* chunk_size = x.shape[self.norm_axis] // self.num_heads
ChunkSize(extent, heads) == extent \div heads

\* faulty variant: a chunk of one element is rejected too
TooShortOffByOne(cs) == cs <= 1

\* if chunk_size == 0: raise ValueError
TooShort(cs) == cs = 0

\* faulty variant: consecutive slices overlap by one element
NarrowStartOverlap(i, cs) == i * (cs - 1)

\* where head i's slice starts: i * chunk_size
NarrowStart(i, cs) == i * cs

\* lines 82-84: the call's entry, on an input tensor t
Call ==
    /\ pc = "idle"
    /\ \E t \in Inputs(norm_axis) :
          /\ x' = t
          /\ chunk_size' = ChunkSize(Extent(t, norm_axis), num_heads)
    /\ IF TooShort(chunk_size')
       THEN pc' = "raised" /\ raised' = "ValueError"
       ELSE pc' = "head" /\ UNCHANGED raised
    /\ UNCHANGED <<config, module, head, normalized_weights, headvars, outs, result>>

\* head(x.narrow(...)): lines 37-54 of the head's forward
HeadEnter ==
    /\ pc = "head"
    /\ LET t == Narrow(x, norm_axis, NarrowStart(head, chunk_size), chunk_size)
           hd == attention_heads[head + 1]
       IN  /\ hx' = t
           /\ mask' = IF padding_value # None THEN MaskOf(t, padding_value) ELSE NoTensor
           /\ x_masked' = XMasked(t, padding_value)
           /\ mean' = MeanOf(t, padding_value, norm_axis)
           /\ var' = VarOf(t, padding_value, norm_axis)
           /\ normalized_weights' = NormalizedWeights(HeadParam(hd, "weights"),
                                                      hd.weights_is_param)
    /\ mixture' = <<<<0>>>>
    /\ comp' = 0
    /\ pc' = "gaussians"
    /\ UNCHANGED <<config, module, raised, head, y_transform, out, callvars>>

\* one turn of the loop of lines 55-59
HeadGaussian ==
    /\ pc = "gaussians"
    /\ comp < num_gaussians
    /\ LET hd == attention_heads[head + 1]
       IN  mixture' = Accumulate(mixture, normalized_weights[comp + 1],
                                 Gaussian(hx, mean, var,
                                          HeadParam(hd, "mean_offsets")[comp + 1],
                                          HeadParam(hd, "c")[comp + 1]))
    /\ comp' = comp + 1
    /\ UNCHANGED <<pc, config, module, raised, head, normalized_weights, hx, mask,
                   x_masked, mean, var, y_transform, out, callvars>>

\* lines 62-63: the head returns, and the list of line 87 grows by its output
HeadReturn ==
    /\ pc = "gaussians"
    /\ comp = num_gaussians
    /\ y_transform' = YTransform(mixture, norm_axis)
    /\ out' = Output(hx, y_transform', padding_value)
    /\ outs' = Append(outs, out')
    /\ head' = head + 1
    /\ pc' = IF head + 1 = num_heads THEN "cat" ELSE "head"
    /\ UNCHANGED <<config, module, raised, normalized_weights, hx, mask, x_masked,
                   mean, var, mixture, comp, x, chunk_size, result>>

\* torch.cat([...], dim=self.norm_axis)
CatOutputs ==
    /\ pc = "cat"
    /\ result' = Cat(outs, norm_axis)
    /\ pc' = "done"
    /\ UNCHANGED <<config, module, raised, head, normalized_weights, headvars, x,
                   chunk_size, outs>>

Next ==
    \/ Call
    \/ HeadEnter
    \/ HeadGaussian
    \/ HeadReturn
    \/ CatOutputs

Spec == Init /\ [][Next]_vars

(***************************************************************************)
(* Properties.                                                             *)
(***************************************************************************)
\* a head has returned: hx is the x it was called with and out what it returned
Returned == pc \in {"head", "cat", "done"} /\ head >= 1

Positions(t) == {<<i, j>> \in (1..Len(t)) \X (1..Len(t[1])) : TRUE}

AxisExtent == Extent(x, norm_axis)

\* C1: with a padding_value, every position of a head's output whose input element
\* equals padding_value holds the input element itself.
C1_PaddingPassthrough ==
    (Returned /\ padding_value # None) =>
        /\ Shape(out) = Shape(hx)
        /\ \A p \in Positions(hx) :
              hx[p[1]][p[2]] = padding_value => out[p[1]][p[2]] = hx[p[1]][p[2]]

C1_Witness ==
    /\ Returned /\ padding_value # None
    /\ \E p \in Positions(hx) : hx[p[1]][p[2]] = padding_value
    /\ \E p \in Positions(hx) :
          /\ hx[p[1]][p[2]] # padding_value
          /\ out[p[1]][p[2]] \notin {NaN, hx[p[1]][p[2]]}

\* the non-padding elements of a lane
NonPadding(s) == SelectSeq(s, LAMBDA v : v # padding_value)

\* C2: with a padding_value, the mean and variance of a slice are those of its
\* non-padding elements alone (stated for slices with at least two of them, where
\* both are defined).
C2_StatsExcludePadding ==
    (pc = "gaussians" /\ padding_value # None) =>
        \A p \in Positions(mean) :
            LET kept == NonPadding(Lane(hx, norm_axis, p[1], p[2]))
            IN  Len(kept) >= 2 =>
                   /\ mean[p[1]][p[2]] = LaneMean(kept)
                   /\ var[p[1]][p[2]] = FAdd(LaneVar(kept), eps)

\* head i's forward on its slice [i * chunk, (i + 1) * chunk), i counted from 0
HeadOnSlice(i, chunk) ==
    LET hd == attention_heads[i + 1]
    IN  Forward(Narrow(x, norm_axis, i * chunk, chunk),
                HeadParam(hd, "mean_offsets"), HeadParam(hd, "c"),
                HeadParam(hd, "weights"), hd.weights_is_param,
                padding_value, norm_axis)

\* C3: the result of the multi-head forward is the concatenation along norm_axis,
\* in head order, of each head's forward on its own contiguous slice; the head at
\* work is given exactly that slice.
C3_MultiHeadEquivalence ==
    LET chunk == AxisExtent \div num_heads
    IN  /\ pc = "done" =>
              result = Cat(AsSeq([i \in 1..num_heads |-> HeadOnSlice(i - 1, chunk)]),
                           norm_axis)
        /\ pc = "gaussians" => hx = Narrow(x, norm_axis, head * chunk, chunk)

C3_Witness ==
    /\ pc = "done" /\ num_heads >= 2 /\ chunk_size >= 2
    /\ \A p \in Positions(result) : result[p[1]][p[2]] # NaN
    /\ outs[1] # outs[2]
    /\ result # x

\* C4: along norm_axis the output has extent E when num_heads divides E and
\* num_heads * (E // num_heads) when it does not; the other axis keeps its extent.
C4_MultiPartitionShape ==
    pc = "done" =>
        /\ AxisExtent >= num_heads
        /\ Extent(result, norm_axis) =
              (IF AxisExtent % num_heads = 0 THEN AxisExtent
               ELSE num_heads * (AxisExtent \div num_heads))
        /\ Extent(result, 1 - norm_axis) = Extent(x, 1 - norm_axis)
        /\ \A i \in 1..Len(result) : Len(result[i]) = Len(result[1])

C4_Witness ==
    /\ pc = "done" /\ AxisExtent % num_heads # 0 /\ num_heads >= 2
    /\ Extent(x, 1 - norm_axis) = 2
    /\ Extent(result, norm_axis) < AxisExtent

SingleLargeGaussian ==
    /\ Returned /\ padding_value = None /\ num_gaussians = 1
    /\ HeadParam(attention_heads[head], "mean_offsets") = <<0>>
    /\ attention_heads[head].weights_is_param
    /\ HeadParam(attention_heads[head], "c")[1] >= 10 * Scale

Uniform(s) == \A k \in 1..Len(s) : s[k] = s[1]

LaneThrough(t, p) ==
    Lane(t, norm_axis, IF norm_axis = 0 THEN 1 ELSE p[1], IF norm_axis = 0 THEN p[2] ELSE 1)

\* C8 as stated: on uniform data the transform is near 1 at every position, so
\* the output is approximately x, for every slice length.
C8_TransformNearOne ==
    SingleLargeGaussian =>
        \A p \in Positions(hx) :
            Uniform(LaneThrough(hx, p)) =>
                /\ y_transform[p[1]][p[2]] # NaN
                /\ y_transform[p[1]][p[2]] >= Scale - Scale \div 10
                /\ y_transform[p[1]][p[2]] <= Scale + Scale \div 10

\* C8 amended: on uniform data the mixture is 1 at every position and the transform
\* is the constant 1 / n for a slice of length n >= 2, so the output is x / n; for a
\* slice of length 1 the variance is NaN, and so are the transform and the output.
C8_TransformIsOneOverN ==
    SingleLargeGaussian =>
        \A p \in Positions(hx) :
            LET lane == LaneThrough(hx, p)
                n == Len(lane)
            IN  Uniform(lane) =>
                   IF n = 1
                   THEN y_transform[p[1]][p[2]] = NaN /\ out[p[1]][p[2]] = NaN
                   ELSE /\ mixture[p[1]][p[2]] = Scale
                        /\ y_transform[p[1]][p[2]] = Scale \div n
                        /\ out[p[1]][p[2]] = FMul(hx[p[1]][p[2]], Scale \div n)

C8_Witness ==
    /\ SingleLargeGaussian
    /\ Shape(hx) = <<2, 3>>
    /\ \A p \in Positions(hx) : Uniform(LaneThrough(hx, p)) /\ hx[p[1]][p[2]] = 3 * Scale
    /\ \A p \in Positions(hx) : out[p[1]][p[2]] < hx[p[1]][p[2]] \div 2 + 1

\* C10: a head's output has exactly the shape of its input, with or without a
\* padding_value.
C10_ShapePreserved ==
    Returned =>
        /\ Len(out) = Len(hx)
        /\ \A i \in 1..Len(hx) : Len(out[i]) = Len(hx[i])

C10_Witness ==
    /\ Returned /\ padding_value # None
    /\ Len(hx) = 2 /\ Len(hx[1]) >= 3
    /\ Shape(out) = Shape(hx)
    /\ Shape(mean) # Shape(hx)

(***************************************************************************)
(* Properties of construction and of parameter updates.                    *)
(***************************************************************************)
Built == pc \in {"idle", "normalized"}
Constructed == pc \in {"raised", "idle", "normalized"}

BadC == initial_variance.kind = "Tensor" /\ Len(heap[1]) # num_gaussians
ExplicitW == learnable_weights.kind \in {"Tensor", "Parameter"}
BadW == ExplicitW /\ Len(heap[2]) # num_gaussians
NoW == learnable_weights.kind \notin {"True", "Tensor", "Parameter"}

AllLengthsRight ==
    /\ Len(attention_heads) = num_heads
    /\ \A h \in 1..Len(attention_heads) :
          \A name \in {"mean_offsets", "c", "weights"} :
              Len(HeadParam(attention_heads[h], name)) = num_gaussians

\* C6 as stated: ValueError for an initial_c of the wrong length, ValueError for
\* weights of the wrong length, TypeError for a learnable_weights that is neither
\* True nor a tensor; otherwise construction succeeds with all lengths num_gaussians.
C6_ConstructionRejection ==
    Constructed =>
        /\ BadC => pc = "raised" /\ raised = "ValueError"
        /\ BadW => pc = "raised" /\ raised = "ValueError"
        /\ NoW => pc = "raised" /\ raised = "TypeError"
        /\ ~(BadC \/ BadW \/ NoW) => Built /\ raised = "none" /\ AllLengthsRight

\* C6 amended: initial_c is checked first, so the TypeError is raised only when
\* initial_c is acceptable; with an initial_c of the wrong length the ValueError is
\* raised whatever learnable_weights is.
C6_RejectionInOrder ==
    Constructed =>
        /\ BadC => pc = "raised" /\ raised = "ValueError"
        /\ BadW => pc = "raised" /\ raised = "ValueError"
        /\ (NoW /\ ~BadC) => pc = "raised" /\ raised = "TypeError"
        /\ ~(BadC \/ BadW \/ NoW) => Built /\ raised = "none" /\ AllLengthsRight

C6_Witness == pc = "raised" /\ BadC /\ NoW /\ raised = "ValueError"

\* the values of the learnable parameters of head h
ParamValues(h) ==
    [name \in Learnable(attention_heads[h]) |-> HeadParam(attention_heads[h], name)]

\* the values of the tensors the caller passed to the constructor
CallerValues ==
    <<IF initial_variance.kind = "Tensor" THEN heap[1] ELSE <<>>,
      IF ExplicitW THEN heap[2] ELSE <<>>>>

\* C7: an update of a learnable parameter of head i leaves the parameters of every
\* other head, and the caller's tensors, unchanged.
C7_HeadsIndependent ==
    [][(pc = "idle" /\ steps' = steps + 1) =>
           /\ \A j \in (1..Len(attention_heads)) \ {last'[1]} :
                 ParamValues(j)' = ParamValues(j)
           /\ CallerValues' = CallerValues]_vars

\* C9 as stated: softmax is used exactly for learnable_weights=True; an explicit
\* weights tensor is used as supplied and is not a learnable parameter.
C9_SoftmaxOnlyForTrue ==
    pc = "normalized" =>
        LET hd == attention_heads[head + 1]
        IN  /\ learnable_weights.kind = "True" =>
                  normalized_weights = Softmax(HeadParam(hd, "weights"))
            /\ ExplicitW =>
                  /\ normalized_weights = heap[2]
                  /\ "weights" \notin Learnable(hd)

NonNegative(s) == \A k \in 1..Len(s) : s[k] >= 0
SumsToOne(s) == SeqSum(s) <= Scale /\ SeqSum(s) >= Scale - Len(s)

\* C9 amended: softmax (non-negative, summing to 1 up to rounding) is used exactly
\* when the stored weights are an nn.Parameter: for learnable_weights=True, and for a
\* supplied tensor that is itself an nn.Parameter, which is then a learnable
\* parameter; a supplied plain tensor is used as supplied and is not learnable.
C9_SoftmaxForParameters ==
    pc = "normalized" =>
        LET hd == attention_heads[head + 1]
        IN  /\ learnable_weights.kind \in {"True", "Parameter"} =>
                  /\ normalized_weights = Softmax(HeadParam(hd, "weights"))
                  /\ NonNegative(normalized_weights) /\ SumsToOne(normalized_weights)
                  /\ "weights" \in Learnable(hd)
            /\ learnable_weights.kind = "Tensor" =>
                  /\ normalized_weights = heap[2]
                  /\ heap[2] = CallerW(num_gaussians)
                  /\ "weights" \notin Learnable(hd)

C9_Witness ==
    /\ pc = "normalized" /\ learnable_weights.kind = "Parameter"
    /\ normalized_weights # heap[2]
    /\ "weights" \in Learnable(attention_heads[head + 1])

====
